---- MODULE Spec2Model ----
(***************************************************************************)
(* Model of the submission pipeline of the Mountain Passes API:            *)
(*   app/main.py      submit_data          (the POST /submitData endpoint) *)
(*   app/database.py  Database.submit_pass_data and the helpers it calls   *)
(* Every worker runs one submission at a time on its own Database object   *)
(* and connection; the four tables are shared by all workers.  One action  *)
(* is one statement sent to the store, or one local step between two       *)
(* statements.  The part of the submitted dictionary a step reads is drawn *)
(* at the step that reads it: the dictionary is never modified, so this is *)
(* the same as drawing the whole dictionary when the call starts.          *)
(***************************************************************************)
EXTENDS Integers, Sequences, FiniteSets, TLC

\* ------------------------------------------------------------------ bounds
\* submissions started in one behaviour, over all workers
MaxSubmissions == 2
\* images carried by all the submissions of one behaviour together
MaxImagesTotal == 2

\* the workers (one inbound request each at a time, each its own connection)
Procs == {"w1", "w2"}

\* ------------------------------------------------------- program constants
\* database.py:16  MAX_IMAGE_SIZE = 5 * 1024 * 1024
MAX_IMAGE_SIZE == 5 * 1024 * 1024

\* Python's None for an id (RETURNING id is a serial, 1, 2, ...)
None == -1
\* a key that is absent from the dictionary, or present with the value None
Absent == "<absent>"
\* message None of the outcome tuple
NoMessage == "<none>"

\* database.py:285, 298, 303, 321, 328, 363 and main.py:81
MsgConnect == "database connection error"
MsgUserFields == "missing user fields"
MsgCreateUser == "error creating user"
MsgRequiredFields == "missing required fields"
MsgCreatePass == "error creating pass"
MsgUnexpected == "error while processing the data"
MsgInternal == "internal server error while processing the request"

\* ------------------------------------------------------------------ base64
\* A character of a submitted payload: 0..63 is the base64 alphabet by value
\* ('A' = 0 ... 'Y' = 24 ... '/' = 63), PadCh is '=', JunkCh is an ASCII
\* character outside the alphabet (a newline, '!'), NonAsciiCh is any
\* character above 127.
PadCh == 64
JunkCh == 65
NonAsciiCh == 66

\* A payload is the text "AAAA" repeated bulk times followed by tail; bytes
\* are zeros zero bytes followed by rest.  "AAAA" decodes to three zero
\* bytes and leaves the decoder where it started, so the pair is an exact
\* picture of a long string and of its decoded bytes.
Text(bulk, tail) == [bulk |-> bulk, tail |-> tail]
Bytes(zeros, rest) == [zeros |-> zeros, rest |-> rest]
ByteLen(b) == b.zeros + Len(b.rest)

A2bStepShort(st, ch) ==
    IF st.done THEN st
    ELSE IF ch = PadCh
    THEN IF st.quad_pos >= 2 /\ st.quad_pos + st.pads + 1 >= 4
         THEN [st EXCEPT !.pads = @ + 1, !.done = TRUE]
         ELSE IF st.quad_pos >= 2 THEN [st EXCEPT !.pads = @ + 1] ELSE st
    ELSE IF ch >= 64 THEN st
    ELSE CASE st.quad_pos = 0 ->
                [st EXCEPT !.pads = 0, !.quad_pos = 1, !.leftchar = ch]
           [] st.quad_pos = 1 ->
                [st EXCEPT !.pads = 0, !.quad_pos = 2,
                           !.out = Append(@, st.leftchar * 4),
                           !.leftchar = ch % 16]
           [] st.quad_pos = 2 ->
                [st EXCEPT !.pads = 0, !.quad_pos = 3,
                           !.out = Append(@, st.leftchar * 16 + ch \div 4),
                           !.leftchar = ch % 4]
           [] OTHER ->
                [st EXCEPT !.pads = 0, !.quad_pos = 0,
                           !.out = Append(@, st.leftchar * 64 + ch),
                           !.leftchar = 0]

\* binascii.a2b_base64 (non-strict), the loop of base64.b64decode(s):
\* st = [quad_pos, leftchar, pads, out, done]
A2bStep(st, ch) ==
    IF st.done THEN st
    ELSE IF ch = PadCh
    THEN IF st.quad_pos >= 2 /\ st.quad_pos + st.pads + 1 >= 4
         THEN [st EXCEPT !.pads = @ + 1, !.done = TRUE]
         ELSE IF st.quad_pos >= 2 THEN [st EXCEPT !.pads = @ + 1] ELSE st
    ELSE IF ch >= 64 THEN st
    ELSE CASE st.quad_pos = 0 ->
                [st EXCEPT !.pads = 0, !.quad_pos = 1, !.leftchar = ch]
           [] st.quad_pos = 1 ->
                [st EXCEPT !.pads = 0, !.quad_pos = 2,
                           !.out = Append(@, st.leftchar * 4 + ch \div 16),
                           !.leftchar = ch % 16]
           [] st.quad_pos = 2 ->
                [st EXCEPT !.pads = 0, !.quad_pos = 3,
                           !.out = Append(@, st.leftchar * 16 + ch \div 4),
                           !.leftchar = ch % 4]
           [] OTHER ->
                [st EXCEPT !.pads = 0, !.quad_pos = 0,
                           !.out = Append(@, st.leftchar * 64 + ch),
                           !.leftchar = 0]

RECURSIVE A2bRun(_, _)
A2bRun(st, s) == IF s = <<>> THEN st ELSE A2bRun(A2bStep(st, Head(s)), Tail(s))

\* base64.b64decode(image_data): [ok, bytes]; ok = FALSE is a raised
\* ValueError (non-ASCII text) or binascii.Error (incorrect padding)
b64decode(t) ==
    IF \E k \in 1..Len(t.tail) : t.tail[k] = NonAsciiCh
    THEN [ok |-> FALSE, bytes |-> Bytes(0, <<>>)]
    ELSE LET fin == A2bRun([quad_pos |-> 0, leftchar |-> 0, pads |-> 0,
                            out |-> <<>>, done |-> FALSE], t.tail)
         IN  IF fin.done \/ fin.quad_pos = 0
             THEN [ok |-> TRUE, bytes |-> Bytes(3 * t.bulk, fin.out)]
             ELSE [ok |-> FALSE, bytes |-> Bytes(0, <<>>)]

\* ------------------------------------------------------------- the inputs
Emails == {"qwerty@mail.ru", "other@mail.ru"}
UserFields == {"email", "phone", "fam", "name", "otc"}

ValidUser(e) ==
    [email |-> e, phone |-> "+7 555 55 55", fam |-> "Pupkin",
     name |-> "Vasiliy", otc |-> "Ivanovich"]

\* the user sub-dictionaries: complete ones, and for each field one that
\* lacks it (the key absent, or the text empty)
UserInputs ==
    {ValidUser(e) : e \in Emails}
    \cup {[ValidUser("qwerty@mail.ru") EXCEPT ![f] = Absent] : f \in {"email", "fam"}}
    \cup {[ValidUser("qwerty@mail.ru") EXCEPT ![f] = ""] : f \in {"phone", "name", "otc"}}

TitleInputs == {Absent, "", "Phiya"}
AddTimeInputs == {"", "2021-09-22 13:18:13"}

\* coords: the example of models.py, a non-numeric longitude (the other
\* keys absent) and a height that is a number but no integer
ExampleCoords ==
    [latitude |-> "45.3842", longitude |-> "7.1525", height |-> "1200"]

CoordsInputs ==
    {ExampleCoords,
     [latitude |-> Absent, longitude |-> "abc", height |-> Absent],
     [latitude |-> "45.3842", longitude |-> "7.1525", height |-> "12.5"]}

\* level: two ratings given, one empty, one key absent
ExampleLevel ==
    [winter |-> "", spring |-> "1A", summer |-> "1A", autumn |-> Absent]

LevelInputs == {ExampleLevel}

\* the largest payload that is stored is BulkQuads times "AAAA" and "AAA=":
\* 3 * BulkQuads + 2 = MAX_IMAGE_SIZE bytes
BulkQuads == (MAX_IMAGE_SIZE - 2) \div 3

\* image payloads: "YQ==", "YR==" (pad bits not zero), "YQ==" and a
\* newline, "YQ=" (incorrect padding), and the two texts around the size
\* limit
PayloadInputs ==
    {Text(0, <<24, 16, PadCh, PadCh>>),
     Text(0, <<24, 17, PadCh, PadCh>>),
     Text(0, <<24, 16, PadCh, PadCh, JunkCh>>),
     Text(0, <<24, 16, PadCh>>),
     Text(BulkQuads, <<0, 0, 0, PadCh>>),
     Text(BulkQuads, <<0, 0, 0, 0>>)}

\* an image dictionary; has_data = FALSE is a dictionary without the key
ImageInputs ==
    {[title |-> "Sedlovina", has_data |-> TRUE, data |-> t] : t \in PayloadInputs}

\* ----------------------------------------------------------- conversions
\* dict.get(key, default)
Get(v, default) == IF v = Absent THEN default ELSE v

\* bool(v) of a text or None
Truthy(v) == v # Absent /\ v # ""

\* float(text): [ok, val], val in units of 1/10000; float(0) when the key
\* is absent (coords.get(key, 0))
ParseFloat(v) ==
    CASE v = Absent -> [ok |-> TRUE, val |-> 0]
      [] v = "45.3842" -> [ok |-> TRUE, val |-> 453842]
      [] v = "7.1525" -> [ok |-> TRUE, val |-> 71525]
      [] v = "1200" -> [ok |-> TRUE, val |-> 12000000]
      [] v = "12.5" -> [ok |-> TRUE, val |-> 125000]
      [] OTHER -> [ok |-> FALSE, val |-> 0]

\* int(text): [ok, val]; int("12.5") raises ValueError
ParseInt(v) ==
    CASE v = Absent -> [ok |-> TRUE, val |-> 0]
      [] v = "1200" -> [ok |-> TRUE, val |-> 1200]
      [] OTHER -> [ok |-> FALSE, val |-> 0]

\* ------------------------------------------------------------------- state
VARIABLES
    users,              \* table users: rows [id, email, phone, fam, name, otc]
    passes,             \* table passes
    difficulty_levels,  \* table difficulty_levels
    images,             \* table images
    users_id_seq,       \* next value of the serial users.id
    passes_id_seq,      \* next value of the serial passes.id
    call,               \* per worker: the submission it is running
    started,            \* submissions started so far
    imagesSeen          \* images read so far, over all submissions

vars == <<users, passes, difficulty_levels, images, users_id_seq,
          passes_id_seq, call, started, imagesSeen>>

tables == <<users, passes, difficulty_levels, images, users_id_seq, passes_id_seq>>

NoRet == [status |-> 0, message |-> NoMessage, id |-> None]

NoImage == [title |-> Absent, has_data |-> FALSE, data |-> Text(0, <<>>)]

UnreadData ==
    [user |-> [f \in UserFields |-> Absent], title |-> Absent,
     add_time |-> Absent,
     coords |-> [latitude |-> Absent, longitude |-> Absent, height |-> Absent],
     level |-> [winter |-> Absent, spring |-> Absent, summer |-> Absent,
                autumn |-> Absent]]

\* a worker before its first request
\*   pc          where the worker is in submit_data / submit_pass_data
\*   pass_data   the part of the submitted dictionary read so far
\*   image       the loop variable of database.py:340
\*   connection  self.connection: "none", "open" or "closed"
\*   ret         the tuple of the return statement that was executed
\*   outcome     what submit_pass_data gave its caller: "none" (still
\*               running), "returned" (ret) or "raised"
\*   envelope    the SubmitPassResponse of the endpoint
\* and what the submission did so far, kept for the properties:
\*   ops         statements it sent to the store
\*   writes      tables it inserted a row into
\*   closes      calls of connection.close()
\*   late        it sent a statement after connection.close()
\*   faults      a store fault happened (not the recovered duplicate email)
\*   imgLog      what happened to each image, in order
IdleCall ==
    [pc |-> "idle", pass_data |-> UnreadData, image |-> NoImage,
     connection |-> "none", user_id |-> None, pass_id |-> None,
     ret |-> NoRet, outcome |-> "none", envelope |-> NoRet, ops |-> 0,
     writes |-> {}, closes |-> 0, late |-> FALSE, faults |-> FALSE,
     imgLog |-> <<>>]

Init ==
    /\ users = {}
    /\ passes = {}
    /\ difficulty_levels = {}
    /\ images = {}
    /\ users_id_seq = 1
    /\ passes_id_seq = 1
    /\ call = [p \in Procs |-> IdleCall]
    /\ started = 0
    /\ imagesSeen = 0

\* -------------------------------------------------------------- helpers
\* a return statement inside the try block: the tuple is kept and the
\* finally block runs next
Return(c, status, message, id) ==
    [c EXCEPT !.ret = [status |-> status, message |-> message, id |-> id],
              !.pc = "finally"]

UnexpectedWithId(c) == Return(c, 500, MsgUnexpected, c.pass_id)

\* except Exception (database.py:361): the 500 of the outer handler
Unexpected(c) == Return(c, 500, MsgUnexpected, None)

\* a store fault was met
Faulted(c) == [c EXCEPT !.faults = TRUE]

\* what the statement `site` may do wrong, F being the faults of the store
At(site, F) == {f[2] : f \in {g \in F : g[1] = site}}

\* one statement sent on the connection
Sent(c) == [c EXCEPT !.ops = @ + 1, !.late = @ \/ c.connection = "closed"]

\* ----------------------------------------------------------- the endpoint
\* main.py:59-67: submit_data is entered, data.model_dump(), Database()
Start(p) ==
    /\ call[p].pc \in {"idle", "done"}
    /\ started < MaxSubmissions
    /\ started' = started + 1
    /\ call' = [call EXCEPT ![p] = [IdleCall EXCEPT !.pc = "connect"]]
    /\ UNCHANGED <<tables, imagesSeen>>

EnvelopeUncaught(c) == IF c.outcome = "returned" THEN c.ret ELSE NoRet

\* main.py:70-83: the envelope of a returned tuple, or of an exception
Envelope(c) ==
    IF c.outcome = "returned" THEN c.ret
    ELSE [status |-> 500, message |-> MsgInternal, id |-> None]

\* main.py:67-83: the response; the locals of the request are gone, the
\* worker keeps what the caller of the endpoint saw
Respond(p) ==
    /\ call[p].pc = "respond"
    /\ call' = [call EXCEPT ![p] =
                  [IdleCall EXCEPT !.pc = "done", !.outcome = call[p].outcome,
                                   !.envelope = Envelope(call[p])]]
    /\ UNCHANGED <<tables, started, imagesSeen>>

\* ------------------------------------------------------- submit_pass_data
ConnectIgnored(c) == [c EXCEPT !.faults = TRUE, !.pc = "check_user"]

\* database.py:284-285 when connect() returned False: the return is before
\* the try block, so no finally block runs
ConnectFailed(c) ==
    [c EXCEPT !.ret = [status |-> 500, message |-> MsgConnect, id |-> None],
              !.outcome = "returned", !.faults = TRUE, !.pc = "respond"]

\* database.py:43-59 and 284: psycopg2.connect succeeds or raises
\* psycopg2.Error
Connect(p, F) ==
    /\ call[p].pc = "connect"
    /\ \E ok \in {TRUE} \cup {FALSE : f \in F \cap {<<"connect", "error">>}} :
          call' = [call EXCEPT ![p] =
                      IF ok THEN [@ EXCEPT !.connection = "open",
                                           !.pc = "check_user"]
                      ELSE ConnectFailed(@)]
    /\ UNCHANGED <<tables, started, imagesSeen>>

UserFieldsButOtc(u) ==
    Truthy(u.email) /\ Truthy(u.phone) /\ Truthy(u.fam) /\ Truthy(u.name)

\* database.py:297  all([email, phone, fam, name, otc])
UserFieldsPresent(u) ==
    Truthy(u.email) /\ Truthy(u.phone) /\ Truthy(u.fam) /\ Truthy(u.name)
    /\ Truthy(u.otc)

\* database.py:289-298; U: the user sub-dictionaries that may be submitted
CheckUser(p, U) ==
    /\ call[p].pc = "check_user"
    /\ \E u \in U :
          LET c == [call[p] EXCEPT !.pass_data.user = u]
          IN  call' = [call EXCEPT ![p] =
                          IF ~UserFieldsPresent(u)
                          THEN Return(c, 400, MsgUserFields, None)
                          ELSE [c EXCEPT !.pc = "create_user"]]
    /\ UNCHANGED <<tables, started, imagesSeen>>

\* a row of users has the email
EmailTaken(email) == \E r \in users : r.email = email

\* the UNIQUE constraint on users.email (the schema is not among the
\* sources; the handler of database.py:174-175 relies on it): an insert of
\* a taken email is refused
UniqueViolation(email) == EmailTaken(email)

TruthyAnything(id) == TRUE

\* bool(id) of database.py:302, 327 (None and 0 are falsy)
TruthyId(id) == id # None /\ id # 0

\* database.py:161-173: the INSERT ... RETURNING id of create_user.
\*   "inserted"   the row is committed (only when the email is free)
\*   "integrity"  psycopg2.IntegrityError: the email is taken, or another
\*                constraint of the table is violated
\*   "error"      another psycopg2.Error, rolled back: create_user is None
\*   "raise"      the rollback of the handler raises in its turn
\* F: the faults the store may show, each the statement and what it does
CreateUser(p, F) ==
    /\ call[p].pc = "create_user"
    /\ LET c == Sent(call[p])
           u == c.pass_data.user
       IN \E r \in {"inserted", "integrity"} \cup At("create_user", F) :
            /\ r = "inserted" => ~UniqueViolation(u.email)
            /\ IF r = "inserted"
               THEN /\ users' = users \cup {[id |-> users_id_seq, email |-> u.email,
                                             phone |-> u.phone, fam |-> u.fam,
                                             name |-> u.name, otc |-> u.otc]}
                    /\ users_id_seq' = users_id_seq + 1
                    /\ call' = [call EXCEPT ![p] =
                                  IF ~TruthyId(users_id_seq)
                                  THEN Return(c, 500, MsgCreateUser, None)
                                  ELSE [c EXCEPT !.user_id = users_id_seq,
                                                 !.writes = @ \cup {"users"},
                                                 !.pc = "extract_pass"]]
               ELSE /\ UNCHANGED <<users, users_id_seq>>
                    /\ call' = [call EXCEPT ![p] =
                                  CASE r = "integrity" ->
                                         [c EXCEPT !.pc = "lookup_user",
                                                   !.faults = ~EmailTaken(u.email)]
                                    [] r = "error" ->
                                         Return(Faulted(c), 500, MsgCreateUser, None)
                                    [] OTHER -> Unexpected(Faulted(c))]
    /\ UNCHANGED <<passes, difficulty_levels, images, passes_id_seq, started,
                   imagesSeen>>

SelectLastval(email) == users_id_seq

\* database.py:178-181  SELECT id FROM users WHERE email = %s; result[0] if
\* result else None
SelectUserId(email) ==
    IF EmailTaken(email)
    THEN (CHOOSE r \in users : r.email = email).id
    ELSE None

\* database.py:174-181: the IntegrityError handler of create_user; the
\* rollback or the SELECT may raise, which leaves create_user
LookupUser(p, F) ==
    /\ call[p].pc = "lookup_user"
    /\ LET c == Sent(call[p])
           id == SelectUserId(c.pass_data.user.email)
       IN \E ok \in {TRUE} \cup {FALSE : f \in F \cap {<<"lookup_user", "raise">>}} :
            call' = [call EXCEPT ![p] =
                        IF ~ok THEN Unexpected(Faulted(c))
                        ELSE IF ~TruthyId(id)
                        THEN Return(c, 500, MsgCreateUser, None)
                        ELSE [c EXCEPT !.user_id = id, !.pc = "extract_pass"]]
    /\ UNCHANGED <<tables, started, imagesSeen>>

\* database.py:320  all([title, add_time])
RequiredPresent(title, add_time) == Truthy(title) /\ Truthy(add_time)

\* database.py:315-317: the three conversions all succeed
CoordsParse(co) ==
    ParseFloat(co.latitude).ok /\ ParseFloat(co.longitude).ok
    /\ ParseInt(co.height).ok

\* database.py:306-321: the conversions of lines 315-317 run before the
\* check of line 320; a ValueError goes to the handler of line 361.
\* T, A, C: the titles, add_times and coords that may be submitted
ExtractPass(p, T, A, C) ==
    /\ call[p].pc = "extract_pass"
    /\ \E t \in T, a \in A, co \in C :
          LET c == [call[p] EXCEPT !.pass_data.title = t,
                                   !.pass_data.add_time = a,
                                   !.pass_data.coords = co]
          IN  call' = [call EXCEPT ![p] =
                          IF ~CoordsParse(co) THEN Unexpected(c)
                          ELSE IF ~RequiredPresent(t, a)
                          THEN Return(c, 400, MsgRequiredFields, None)
                          ELSE [c EXCEPT !.pc = "create_pass"]]
    /\ UNCHANGED <<tables, started, imagesSeen>>

PassRowPending(id, d, user_id) ==
    [id |-> id, title |-> d.title, add_time |-> d.add_time,
     user_id |-> user_id,
     latitude |-> ParseFloat(d.coords.latitude).val,
     longitude |-> ParseFloat(d.coords.longitude).val,
     height |-> ParseInt(d.coords.height).val,
     status |-> "pending"]

\* database.py:207-217: the row of INSERT INTO passes (beauty_title,
\* other_titles and connect are stored as submitted and read by nothing)
PassRow(id, d, user_id) ==
    [id |-> id, title |-> d.title, add_time |-> d.add_time,
     user_id |-> user_id,
     latitude |-> ParseFloat(d.coords.latitude).val,
     longitude |-> ParseFloat(d.coords.longitude).val,
     height |-> ParseInt(d.coords.height).val,
     status |-> "new"]

\* database.py:187-225 and 324-328: create_pass
CreatePass(p, F) ==
    /\ call[p].pc = "create_pass"
    /\ LET c == Sent(call[p])
       IN \E r \in {"inserted"} \cup At("create_pass", F) :
            IF r = "inserted"
            THEN /\ passes' = passes \cup
                        {PassRow(passes_id_seq, c.pass_data, c.user_id)}
                 /\ passes_id_seq' = passes_id_seq + 1
                 /\ call' = [call EXCEPT ![p] =
                               IF ~TruthyId(passes_id_seq)
                               THEN Return(c, 500, MsgCreatePass, None)
                               ELSE [c EXCEPT !.pass_id = passes_id_seq,
                                              !.writes = @ \cup {"passes"},
                                              !.pc = "create_level"]]
            ELSE /\ UNCHANGED <<passes, passes_id_seq>>
                 /\ call' = [call EXCEPT ![p] =
                               IF r = "error"
                               THEN Return(Faulted(c), 500, MsgCreatePass, None)
                               ELSE Unexpected(Faulted(c))]
    /\ UNCHANGED <<users, difficulty_levels, images, users_id_seq, started,
                   imagesSeen>>

\* database.py:227-247 and 331-337: create_difficulty_level through
\* execute_query (database.py:66-86): True, False (ignored by the caller),
\* or an exception out of the rollback of line 85.
\* L: the level sub-dictionaries that may be submitted
CreateDifficultyLevel(p, L, F) ==
    /\ call[p].pc = "create_level"
    /\ \E lv \in L, r \in {"inserted"} \cup At("create_level", F) :
          LET c == Sent([call[p] EXCEPT !.pass_data.level = lv])
          IN  /\ difficulty_levels' =
                    IF r = "inserted"
                    THEN difficulty_levels \cup
                           {[pass_id |-> c.pass_id,
                             winter |-> Get(lv.winter, ""),
                             spring |-> Get(lv.spring, ""),
                             summer |-> Get(lv.summer, ""),
                             autumn |-> Get(lv.autumn, "")]}
                    ELSE difficulty_levels
              /\ call' = [call EXCEPT ![p] =
                            CASE r = "inserted" ->
                                   [c EXCEPT !.writes = @ \cup {"difficulty_levels"},
                                             !.pc = "images"]
                              [] r = "error" -> [Faulted(c) EXCEPT !.pc = "images"]
                              [] OTHER -> Unexpected(Faulted(c))]
    /\ UNCHANGED <<users, passes, images, users_id_seq, passes_id_seq, started,
                   imagesSeen>>

\* the images of the log that were stored
Stored(log) == Cardinality({k \in 1..Len(log) : log[k] = "stored"})

TooLargeOrEqual(b) == ByteLen(b) >= MAX_IMAGE_SIZE

\* database.py:349  len(image_bytes) > MAX_IMAGE_SIZE
TooLarge(b) == ByteLen(b) > MAX_IMAGE_SIZE

\* database.py:341-342  image.get('title', ''), image.get('data', '')
ImageTitle(img) == Get(img.title, "")
ImageData(img) == IF img.has_data THEN img.data ELSE Text(0, <<>>)

\* database.py:340-357: one turn of the loop over images.  The log entry is
\* "decode_error", "too_large", "stored", "insert_error" (create_image was
\* False) or "insert_raised" (execute_query raised; the handler of line 355
\* takes it).  The table is a bag: the row's n, the number of the row
\* among the rows of its pass, tells two equal images of one pass apart.
\* I: the image dictionaries that may be submitted
ProcessImage(p, I, F) ==
    /\ call[p].pc = "images"
    /\ imagesSeen < MaxImagesTotal
    /\ imagesSeen' = imagesSeen + 1
    /\ \E img \in I, r \in {"inserted"} \cup At("create_image", F) :
          LET dec == b64decode(ImageData(img))
              skip == ~dec.ok \/ TooLarge(dec.bytes)
              c == IF skip THEN call[p] ELSE Sent(call[p])
              what == IF ~dec.ok THEN "decode_error"
                      ELSE IF TooLarge(dec.bytes) THEN "too_large"
                      ELSE IF r = "inserted" THEN "stored"
                      ELSE IF r = "error" THEN "insert_error"
                      ELSE "insert_raised"
          IN  /\ skip => r = "inserted"
              /\ images' =
                    IF what = "stored"
                    THEN images \cup {[pass_id |-> c.pass_id,
                                       n |-> Stored(c.imgLog) + 1,
                                       title |-> ImageTitle(img),
                                       data |-> dec.bytes]}
                    ELSE images
              /\ call' = [call EXCEPT ![p] =
                            [c EXCEPT !.image = img,
                                      !.imgLog = Append(@, what),
                                      !.writes = IF what = "stored"
                                                 THEN @ \cup {"images"} ELSE @,
                                      !.faults = @ \/ what \in {"insert_error",
                                                                "insert_raised"}]]
    /\ UNCHANGED <<users, passes, difficulty_levels, users_id_seq,
                   passes_id_seq, started>>

\* database.py:340 and 359: the list is exhausted, return 200, None, pass_id
\* (the loop variable is read by nothing after the loop)
ReturnOk(p) ==
    /\ call[p].pc = "images"
    /\ call' = [call EXCEPT ![p] =
                  Return([@ EXCEPT !.image = NoImage], 200, NoMessage,
                         call[p].pass_id)]
    /\ UNCHANGED <<tables, started, imagesSeen>>

disconnectNever(c) == c

\* database.py:61-64  disconnect(): if self.connection: self.connection.close()
disconnect(c) ==
    IF c.connection # "none"
    THEN [c EXCEPT !.connection = "closed", !.closes = @ + 1]
    ELSE c

\* database.py:365-367: the finally block; when close() raises, the
\* exception replaces the tuple of the return statement
Disconnect(p, F) ==
    /\ call[p].pc = "finally"
    /\ \E ok \in {TRUE} \cup {FALSE : f \in F \cap {<<"close", "raise">>}} :
          call' = [call EXCEPT ![p] =
                      [disconnect(@) EXCEPT
                          !.outcome = IF ok THEN "returned" ELSE "raised",
                          !.faults = @ \/ ~ok,
                          !.pc = "respond"]]
    /\ UNCHANGED <<tables, started, imagesSeen>>

\* the faults of the store: a statement fails with a psycopg2.Error that
\* its helper handles ("error"), or an exception leaves the helper ("raise")
Faults ==
    {<<"connect", "error">>, <<"lookup_user", "raise">>, <<"close", "raise">>}
    \cup ({"create_user", "create_pass", "create_level", "create_image"}
           \X {"error", "raise"})

\* one step of worker p on a submission drawn from the given sets, the
\* store showing the faults F
Step(p, U, T, A, C, L, I, F) ==
    \/ Start(p)
    \/ Connect(p, F)
    \/ CheckUser(p, U)
    \/ CreateUser(p, F)
    \/ LookupUser(p, F)
    \/ ExtractPass(p, T, A, C)
    \/ CreatePass(p, F)
    \/ CreateDifficultyLevel(p, L, F)
    \/ ProcessImage(p, I, F)
    \/ ReturnOk(p)
    \/ Disconnect(p, F)
    \/ Respond(p)

\* One worker takes the submissions one after another; every input and
\* every fault.
Next ==
    Step("w1", UserInputs, TitleInputs, AddTimeInputs, CoordsInputs,
         LevelInputs, ImageInputs, Faults)

Spec == Init /\ [][Next]_vars

\* Two workers run their submissions concurrently, each on its own
\* connection; the submissions are complete ones, with either email and one
\* image payload, and the insert of a user or of a difficulty level may fail
\* with an error its helper handles.
NextConcurrent ==
    \E p \in Procs :
        Step(p, {ValidUser(e) : e \in Emails}, {"Phiya"},
             {"2021-09-22 13:18:13"}, {ExampleCoords}, {ExampleLevel},
             {[title |-> "Sedlovina", has_data |-> TRUE,
               data |-> Text(0, <<24, 16, PadCh, PadCh>>)]},
             {"create_user", "create_level"} \X {"error"})

SpecConcurrent == Init /\ [][NextConcurrent]_vars

\* ================================================================ claims
\* the three shapes of an outcome tuple and of a response envelope
Shape200(t) == t.status = 200 /\ t.message = NoMessage /\ t.id # None
Shape400(t) == t.status = 400 /\ t.message # NoMessage /\ t.id = None
Shape500(t) == t.status = 500 /\ t.message # NoMessage /\ t.id = None
OneOfThree(t) == Shape200(t) \/ Shape400(t) \/ Shape500(t)

Tuple(status, message, id) == [status |-> status, message |-> message, id |-> id]

\* the worker is inside the try block of submit_pass_data, or past it
InTry(c) ==
    c.pc \in {"check_user", "create_user", "lookup_user", "extract_pass",
              "create_pass", "create_level", "images"}
Ended(c) == c.pc \in {"finally", "respond"}

\* C1: every tuple submit_pass_data returns and every envelope of the
\* endpoint is (200, no message, an id), (400, a message, no id) or
\* (500, a message, no id), whatever the input and the faults of the store.
C1_ThreeShapes ==
    \A p \in Procs :
        /\ (call[p].pc = "respond" /\ call[p].outcome = "returned")
              => OneOfThree(call[p].ret)
        /\ call[p].pc = "done" => OneOfThree(call[p].envelope)

\* a store fault after the Pass row was written, answered with a 500 and no id
C1_Witness ==
    \E p \in Procs :
        /\ call[p].pc = "respond" /\ call[p].outcome = "returned"
        /\ call[p].pass_id # None /\ Shape500(call[p].ret)

\* C2: the users table never holds two rows with one email, and a submission
\* that got past user resolution holds the id of the row with its email; a
\* duplicate email alone is never answered with the user-creation error.
C2_OneUserPerEmail ==
    /\ \A u1, u2 \in users : u1.email = u2.email => u1 = u2
    /\ \A p \in Procs :
          LET c == call[p]
          IN  /\ c.user_id # None =>
                    \E u \in users : /\ u.email = c.pass_data.user.email
                                     /\ u.id = c.user_id
              /\ (Ended(c) /\ c.ret.message = MsgCreateUser) => c.faults

\* two submissions with one email in flight together, both resolved to the
\* same id, one of them through the duplicate-email handler
C2_Witness ==
    \E p, q \in Procs :
        /\ p # q
        /\ InTry(call[p]) /\ InTry(call[q])
        /\ call[p].user_id # None /\ call[p].user_id = call[q].user_id
        /\ "users" \in call[p].writes /\ "users" \notin call[q].writes

\* C3 (as claimed): once the user is resolved, a missing or empty title or
\* add_time gives (400, missing required fields, no id) whatever the
\* coordinates are, and only the users table may have been written.
C3_MissingRequiredIs400 ==
    \A p \in Procs :
        LET c == call[p]
        IN  (Ended(c) /\ c.user_id # None
             /\ ~(Truthy(c.pass_data.title) /\ Truthy(c.pass_data.add_time)))
            => /\ c.ret = Tuple(400, MsgRequiredFields, None)
               /\ c.writes \subseteq {"users"}

\* the row the last image of the log was stored as
LastRow(c) ==
    CHOOSE r \in images : r.pass_id = c.pass_id /\ r.n = Stored(c.imgLog)

\* C4: an image is stored if and only if its payload decodes, the decoded
\* size is at most MAX_IMAGE_SIZE and its insert succeeds; whatever happens
\* to an image the loop goes on, and the submission ends (200, None, pass_id).
C4_ImagesAbsorbed ==
    \A p \in Procs :
        LET c == call[p]
            dec == b64decode(ImageData(c.image))
            last == c.imgLog[Len(c.imgLog)]
            fits == dec.ok /\ ByteLen(dec.bytes) <= MAX_IMAGE_SIZE
        IN  /\ c.pass_id # None =>
                 Cardinality({r \in images : r.pass_id = c.pass_id})
                    = Stored(c.imgLog)
            /\ (c.pc = "images" /\ c.imgLog # <<>>) =>
                 /\ last = "stored" <=>
                       (fits /\ last \notin {"insert_error", "insert_raised"})
                 /\ ~fits => last \in {"decode_error", "too_large"}
                 /\ last = "stored" =>
                       \E r \in images : /\ r.pass_id = c.pass_id
                                         /\ r.n = Stored(c.imgLog)
                                         /\ r.data = dec.bytes
            /\ c.imgLog # <<>> =>
                 /\ c.pc \in {"images", "finally", "respond"}
                 /\ Ended(c) => c.ret = Tuple(200, NoMessage, c.pass_id)
                 /\ (c.pc = "respond" /\ c.outcome # "returned") =>
                       (c.outcome = "raised" /\ c.faults)

\* an image over the limit was skipped and the next one, of exactly
\* MAX_IMAGE_SIZE bytes, is stored
C4_Witness ==
    \E p \in Procs :
        /\ call[p].pc = "images"
        /\ call[p].imgLog = <<"too_large", "stored">>
        /\ ByteLen(LastRow(call[p]).data) = MAX_IMAGE_SIZE

\* base64.b64encode of a byte string (the re-encoding of the round trip)
RECURSIVE B2aRest(_)
B2aRest(r) ==
    IF r = <<>> THEN <<>>
    ELSE IF Len(r) = 1
    THEN <<r[1] \div 4, (r[1] % 4) * 16, PadCh, PadCh>>
    ELSE IF Len(r) = 2
    THEN <<r[1] \div 4, (r[1] % 4) * 16 + r[2] \div 16, (r[2] % 16) * 4, PadCh>>
    ELSE <<r[1] \div 4, (r[1] % 4) * 16 + r[2] \div 16,
           (r[2] % 16) * 4 + r[3] \div 64, r[3] % 64>>
         \o B2aRest(SubSeq(r, 4, Len(r)))

b64encode(b) ==
    LET z == b.zeros % 3
        lead == [k \in 1..z |-> 0]
    IN  Text(b.zeros \div 3, B2aRest(lead \o b.rest))

\* the text is what b64encode produces: alphabet characters in groups of
\* four, '=' only as the last one or two characters, the unused bits zero
Canonical(t) ==
    LET s == t.tail
        n == Len(s)
    IN  /\ n % 4 = 0
        /\ \A k \in 1..n : s[k] <= PadCh
        /\ \A k \in 1..n : s[k] = PadCh => k >= n - 1
        /\ (n > 0 /\ s[n] # PadCh) => s[n - 1] # PadCh
        /\ (n > 0 /\ s[n] = PadCh /\ s[n - 1] = PadCh) => s[n - 2] % 16 = 0
        /\ (n > 0 /\ s[n] = PadCh /\ s[n - 1] # PadCh) => s[n - 1] % 4 = 0

\* the image just processed was stored
JustStored(c) ==
    c.pc = "images" /\ c.imgLog # <<>> /\ c.imgLog[Len(c.imgLog)] = "stored"

\* C5 (as claimed): the stored bytes of an image, encoded again, are the
\* text that was submitted, for every text the decoder accepts.
C5_RoundTrip ==
    \A p \in Procs :
        JustStored(call[p]) =>
            b64encode(LastRow(call[p]).data) = ImageData(call[p].image)

\* C5 (amended): the stored bytes of an image, encoded again, are the text
\* that was submitted, for every submitted text in canonical base64 form.
C5_RoundTripCanonical ==
    \A p \in Procs :
        (JustStored(call[p]) /\ Canonical(ImageData(call[p].image))) =>
            b64encode(LastRow(call[p]).data) = ImageData(call[p].image)

\* a canonical payload of one byte is stored
C5_Witness ==
    \E p \in Procs :
        /\ JustStored(call[p])
        /\ Canonical(ImageData(call[p].image))
        /\ LastRow(call[p]).data = Bytes(0, <<97>>)

\* the submission is complete, its coordinates parse and no store fault
\* happened
CleanRun(c) ==
    /\ c.connection # "none"
    /\ \A f \in UserFields : Truthy(c.pass_data.user[f])
    /\ Truthy(c.pass_data.title) /\ Truthy(c.pass_data.add_time)
    /\ ParseFloat(c.pass_data.coords.latitude).ok
    /\ ParseFloat(c.pass_data.coords.longitude).ok
    /\ ParseInt(c.pass_data.coords.height).ok
    /\ ~c.faults

\* C6: a complete submission whose coordinates parse, with no store fault,
\* returns (200, None, id) where id is a Pass row this submission wrote, with
\* status "new", the submitted title and add_time, owned by the User row
\* with the submitted email.
C6_ValidSubmission ==
    \A p \in Procs :
        LET c == call[p]
        IN  (c.pc = "respond" /\ CleanRun(c)) =>
              /\ c.outcome = "returned"
              /\ Shape200(c.ret)
              /\ "passes" \in c.writes
              /\ Cardinality({r \in passes : r.id = c.ret.id}) = 1
              /\ \E r \in passes :
                    /\ r.id = c.ret.id
                    /\ r.status = "new"
                    /\ r.title = c.pass_data.title
                    /\ r.add_time = c.pass_data.add_time
                    /\ \E u \in users : /\ u.id = r.user_id
                                        /\ u.email = c.pass_data.user.email

\* a clean submission of a user that existed before, answered with the id
\* of the second Pass row
C6_Witness ==
    \E p \in Procs :
        /\ call[p].pc = "respond" /\ CleanRun(call[p])
        /\ "users" \notin call[p].writes
        /\ call[p].ret = Tuple(200, NoMessage, 2)

\* C7: when submit_pass_data raises, the endpoint answers with status 500,
\* the generic message and no id.
C7_EndpointCatches ==
    \A p \in Procs :
        (call[p].pc = "done" /\ call[p].outcome = "raised") =>
            call[p].envelope = Tuple(500, MsgInternal, None)

\* the release of the connection raised and the endpoint has answered
C7_Witness ==
    \E p \in Procs : call[p].pc = "done" /\ call[p].outcome = "raised"

\* C8: with a user field missing or empty the return statement is
\* (400, missing user fields, None); no statement was sent to the store and
\* no table was written; the caller gets that tuple unless the release of
\* the connection raises.
C8_MissingUserField ==
    \A p \in Procs :
        LET c == call[p]
        IN  (Ended(c) /\ c.connection # "none"
             /\ \E f \in UserFields : ~Truthy(c.pass_data.user[f]))
            => /\ c.ret = Tuple(400, MsgUserFields, None)
               /\ c.ops = 0
               /\ c.writes = {}
               /\ (c.pc = "respond" /\ c.outcome # "returned") =>
                     (c.outcome = "raised" /\ c.faults)

\* a submission with an empty otc was answered 400
C8_Witness ==
    \E p \in Procs :
        /\ call[p].pc = "respond" /\ call[p].outcome = "returned"
        /\ call[p].pass_data.user.otc = ""
        /\ call[p].ret.status = 400

\* C9: when the connection cannot be acquired, submit_pass_data returns
\* (500, connection error, None), having read nothing of the submission,
\* sent no statement and written no table.
C9_ConnectFailure ==
    \A p \in Procs :
        LET c == call[p]
        IN  (c.pc \notin {"idle", "connect", "done"} /\ c.connection = "none")
            => /\ c.pc = "respond"
               /\ c.outcome = "returned"
               /\ c.ret = Tuple(500, MsgConnect, None)
               /\ c.pass_data = UnreadData
               /\ c.ops = 0 /\ c.writes = {} /\ c.closes = 0

\* the second submission of a behaviour found no connection
C9_Witness ==
    \E p \in Procs :
        /\ call[p].pc = "respond" /\ call[p].connection = "none"
        /\ started = 2

\* C10: once acquired, the connection is released exactly once, as the last
\* step of submit_pass_data, on every path, and no statement follows it.
C10_ReleasedOnce ==
    \A p \in Procs :
        LET c == call[p]
        IN  /\ c.closes <= 1
            /\ ~c.late
            /\ (InTry(c) \/ c.pc = "finally") =>
                  (c.connection = "open" /\ c.closes = 0)
            /\ (c.pc = "respond" /\ c.connection # "none") =>
                  (c.connection = "closed" /\ c.closes = 1)
            /\ c.connection = "closed" => c.pc = "respond"

\* an exception unwound through the operation after statements were sent,
\* and the connection was released once
C10_Witness ==
    \E p \in Procs :
        /\ call[p].pc = "respond" /\ call[p].closes = 1
        /\ call[p].ret.message = MsgUnexpected /\ call[p].ops >= 3

\* the Pass insert of the submission succeeded and its DifficultyLevel
\* insert, which was attempted, wrote no row
LevelFailed(c) ==
    /\ c.pass_id # None
    /\ c.pc \in {"images", "finally", "respond"}
    /\ "difficulty_levels" \notin c.writes

\* C11: once the Pass insert has succeeded, a failure of the DifficultyLevel
\* insert causes no early return: the submission goes through the image
\* loop and returns (200, None, pass_id), the Pass row being present.
C11_LevelFailureIgnored ==
    \A p \in Procs :
        LET c == call[p]
        IN  (Ended(c) /\ LevelFailed(c)) =>
              /\ c.ret = Tuple(200, NoMessage, c.pass_id)
              /\ \E r \in passes : r.id = c.pass_id

\* every reference of a row is to a row that exists
ForeignKeys ==
    /\ \A d \in difficulty_levels : \E r \in passes : r.id = d.pass_id
    /\ \A i \in images : \E r \in passes : r.id = i.pass_id
    /\ \A r \in passes : \E u \in users : u.id = r.user_id

\* the User and Pass rows a running submission resolved or wrote are in
\* the store
OwnRowsKept ==
    \A p \in Procs :
        LET c == call[p]
        IN  /\ c.user_id # None => \E u \in users : u.id = c.user_id
            /\ c.pass_id # None =>
                  \E r \in passes : r.id = c.pass_id /\ r.user_id = c.user_id

\* no step takes a row out of a table
RowsOnlyAdded ==
    /\ users \subseteq users'
    /\ passes \subseteq passes'
    /\ difficulty_levels \subseteq difficulty_levels'
    /\ images \subseteq images'

\* C12: in every state of every interleaving of submissions, each
\* DifficultyLevel row and each Image row references an existing Pass row
\* and each Pass row an existing User row; no step removes a row, so the
\* User and Pass rows of a submission stay when a later insert of it fails.
C12_ReferencesAndGrowth ==
    /\ [](ForeignKeys /\ OwnRowsKept)
    /\ [][RowsOnlyAdded]_vars

\* two submissions in flight, each with its Pass row: one ended after its
\* DifficultyLevel insert failed and an image of it was stored, the other
\* wrote its DifficultyLevel row and is in the image loop
C12_Witness ==
    \E p, q \in Procs :
        /\ p # q
        /\ call[p].pc = "respond" /\ LevelFailed(call[p])
        /\ "images" \in call[p].writes
        /\ call[q].pc = "images" /\ call[q].pass_id # None
        /\ "difficulty_levels" \in call[q].writes
        /\ ForeignKeys /\ OwnRowsKept

====
